---- MODULE Spec2Model ----
(***************************************************************************)
(* Model of the dbms database browser: the query model (Table.select,      *)
(* Query, SqliteResolver.resolve), the projection extractor                *)
(* (sql_helper.get_selected_columns), the sqlite storage adapter           *)
(* (SqliteDatabase.connect / execute / fetch) and the Viewer's event       *)
(* handlers (init_table, update_sql, _set_filter, update_view).            *)
(*                                                                         *)
(* Text is a sequence of one-character strings, so that joining,           *)
(* splitting, trimming, searching and lower-casing are computed as the     *)
(* Python string methods compute them.                                     *)
(***************************************************************************)
EXTENDS Integers, Sequences, FiniteSets, TLC

VARIABLES
    query,        \* SpecQuery: the Query object under construction (chain, head first)
    call,         \* SpecQuery: the last call made on the query model
    resolved,     \* SpecQuery: outcome of query.resolve()
    whereResult,  \* SpecQuery: outcome of the last query.where(p) call
    sqlIn,        \* SpecExtract: the SQL text handed to get_selected_columns
    extracted,    \* SpecExtract: outcome of get_selected_columns(sqlIn)
    storageCall,  \* SpecStorage: the last execute / fetch call and its outcome
    openConns,    \* connections opened by connect() and not closed
    viewer,       \* Spec: the Viewer object and the text / grid of its widgets
    event         \* Spec: the last interaction and what was raised during it

vars == <<query, call, resolved, whereResult, sqlIn, extracted,
          storageCall, openConns, viewer, event>>

-----------------------------------------------------------------------------
(* Bounds *)

MaxCols == 2      \* longest explicit column list handed to select / the extractor
MaxChain == 3     \* longest Query chain (WHERE over WHERE over SELECT)
MaxConns == 5     \* most connections left open at once
MaxExtract == 3   \* longest column list of a SQL text handed to the extractor

-----------------------------------------------------------------------------
(* Python str methods on text *)

Whitespace == {" ", "\t", "\n"}

UpperCase == <<"A","B","C","D","E","F","G","H","I","J","K","L","M",
               "N","O","P","Q","R","S","T","U","V","W","X","Y","Z">>
LowerCase == <<"a","b","c","d","e","f","g","h","i","j","k","l","m",
               "n","o","p","q","r","s","t","u","v","w","x","y","z">>

lower_char(c) ==
    IF \E i \in 1..26 : UpperCase[i] = c
    THEN LowerCase[CHOOSE i \in 1..26 : UpperCase[i] = c]
    ELSE c

lower(s) == [i \in 1..Len(s) |-> lower_char(s[i])]

MatchAt(s, sub, i) ==
    /\ i + Len(sub) - 1 <= Len(s)
    /\ \A k \in 1..Len(sub) : s[i + k - 1] = sub[k]

\* str.find: 0-based index of the first occurrence, -1 when absent
find(s, sub) ==
    LET hits == {i \in 1..(Len(s) + 1) : MatchAt(s, sub, i)}
    IN  IF hits = {} THEN -1
        ELSE (CHOOSE i \in hits : \A j \in hits : i <= j) - 1

\* the `in` operator on str
contains(s, sub) == find(s, sub) # -1

\* s[i:] with a 0-based start
slice_from(s, i) == SubSeq(s, i + 1, Len(s))

\* s[:i] with a 0-based end
slice_to(s, i) == SubSeq(s, 1, i)

RECURSIVE lstrip(_)
lstrip(s) ==
    IF s # <<>> /\ Head(s) \in Whitespace THEN lstrip(Tail(s)) ELSE s

RECURSIVE rstrip(_)
rstrip(s) ==
    IF s # <<>> /\ s[Len(s)] \in Whitespace
    THEN rstrip(SubSeq(s, 1, Len(s) - 1)) ELSE s

strip(s) == rstrip(lstrip(s))

\* str.split(sep) for a one-character sep: never returns an empty list
RECURSIVE split(_, _)
split(s, sep) ==
    LET i == find(s, <<sep>>)
    IN  IF i = -1 THEN <<s>>
        ELSE <<slice_to(s, i)>> \o split(slice_from(s, i + 1), sep)

join_spaced(sep, xs) ==
    IF xs = <<>> THEN <<>>
    ELSE LET F[i \in 1..Len(xs)] ==
                 IF i = 1 THEN xs[1] ELSE F[i - 1] \o sep \o <<" ">> \o xs[i]
         IN  F[Len(xs)]

\* sep.join(xs)
RECURSIVE join(_, _)
join(sep, xs) ==
    IF xs = <<>> THEN <<>>
    ELSE IF Len(xs) = 1 THEN xs[1]
    ELSE xs[1] \o sep \o join(sep, Tail(xs))

-----------------------------------------------------------------------------
(* Python values and call outcomes: a value is its type, its text (str) and *)
(* its elements (list, tuple)                                               *)

PyStr(t) == [type |-> "str", val |-> t, items |-> <<>>]
PyList(xs) == [type |-> "list", val |-> <<>>, items |-> xs]
PyTuple(xs) == [type |-> "tuple", val |-> <<>>, items |-> xs]
PyInt == [type |-> "int", val |-> <<>>, items |-> <<>>]
PyNone == [type |-> "NoneType", val |-> <<>>, items |-> <<>>]

\* a call either returns val (err = "none") or raises err with message msg
Return(v) == [err |-> "none", msg |-> "", val |-> v]
Raise(e, m) == [err |-> e, msg |-> m, val |-> <<>>]

-----------------------------------------------------------------------------
(* The store: the file db.db opened by main.py, as the sqlite engine sees it. *)
(* Every statement the model issues is a read, so the content is fixed.       *)

T_users == <<"u","s","e","r","s">>
T_items == <<"i","t","e","m","s">>
C_id == <<"i","d">>
C_Name == <<"N","a","m","e">>
C_sku == <<"s","k","u">>

Catalog ==
    << [name |-> T_users, columns |-> <<C_id, C_Name>>,
        rows |-> << << <<"1">>, <<"A","l">> >> >>],
       [name |-> T_items, columns |-> <<C_sku>>,
        rows |-> << << <<"7">> >>, << <<"8">> >> >>] >>

\* identifiers are case-insensitive in the engine
HasTable(n) == \E i \in 1..Len(Catalog) : lower(Catalog[i].name) = lower(n)
TableOf(n) == Catalog[CHOOSE i \in 1..Len(Catalog) : lower(Catalog[i].name) = lower(n)]

ColumnIndex(t, c) ==
    IF \E i \in 1..Len(t.columns) : lower(t.columns[i]) = lower(c)
    THEN CHOOSE i \in 1..Len(t.columns) : lower(t.columns[i]) = lower(c)
    ELSE 0

RECURSIVE Flatten(_)
Flatten(ss) == IF ss = <<>> THEN <<>> ELSE Head(ss) \o Flatten(Tail(ss))

K_select == <<"s","e","l","e","c","t">>
K_from == <<" ","f","r","o","m"," ">>
K_where == <<" ","w","h","e","r","e"," ">>
K_as == <<"a","s">>
K_pragma == <<"p","r","a","g","m","a"," ","t","a","b","l","e","_","i","n","f","o","(">>

\* PRAGMA table_info(name): one row (cid, name, type, notnull, dflt_value, pk)
\* per column, no row for an unknown table
table_info(n) ==
    IF ~HasTable(n) THEN <<>>
    ELSE LET t == TableOf(n)
         IN  [i \in 1..Len(t.columns) |->
                 << <<"0">>, t.columns[i], <<>>, <<"0">>, <<>>, <<"0">> >>]

\* the column positions one entry of a select list stands for:
\* `*`, `col` or `col AS alias`; <<0>> when the entry names no column
ItemColumns(t, item) ==
    LET w == split(item, " ")
    IN  IF item = <<"*">> THEN [i \in 1..Len(t.columns) |-> i]
        ELSE IF Len(w) = 1 \/ (Len(w) = 3 /\ lower(w[2]) = K_as /\ w[3] # <<>>)
             THEN <<ColumnIndex(t, w[1])>>
             ELSE <<0>>

EngineSelect(sql) ==
    LET l == lower(sql)
        fi == find(l, K_from)
        listText == strip(SubSeq(sql, 7, fi))
        rest == slice_from(sql, fi + 6)
        wi == find(lower(rest), K_where)
        tname == strip(IF wi = -1 THEN rest ELSE slice_to(rest, wi))
        pred == IF wi = -1 THEN <<>> ELSE split(slice_from(rest, wi + 7), "=")
        t == TableOf(tname)
        raw == split(listText, ",")
        items == [i \in 1..Len(raw) |-> strip(raw[i])]
        idx == Flatten([i \in 1..Len(items) |-> ItemColumns(t, items[i])])
        pcol == ColumnIndex(t, strip(pred[1]))
        Keep(r) == wi = -1 \/ r[pcol] = strip(pred[2])
        kept == SelectSeq(t.rows, Keep)
    IN  IF fi = -1 THEN Raise("OperationalError", "incomplete input")
        ELSE IF \E i \in 1..Len(items) : items[i] = <<>>
             THEN Raise("OperationalError", "syntax error")
        ELSE IF ~HasTable(tname) THEN Raise("OperationalError", "no such table")
        ELSE IF \E i \in 1..Len(idx) : idx[i] = 0
             THEN Raise("OperationalError", "no such column")
        ELSE IF wi # -1 /\ (Len(pred) # 2 \/ pcol = 0)
             THEN Raise("OperationalError", "syntax error")
        ELSE Return([r \in 1..Len(kept) |-> [c \in 1..Len(idx) |-> kept[r][idx[c]]]])

\* cursor.execute(sql, ()) followed by fetchall() on the store
Engine(sql) ==
    LET s == strip(sql)
        l == lower(s)
    IN  IF MatchAt(l, K_pragma, 1) /\ l[Len(l)] = ")"
        THEN Return(table_info(SubSeq(s, Len(K_pragma) + 1, Len(s) - 1)))
        ELSE IF MatchAt(l, K_select, 1) /\ Len(l) > 6 /\ l[7] \in Whitespace
        THEN EngineSelect(s)
        ELSE Raise("OperationalError", "syntax error")

-----------------------------------------------------------------------------
(* Storage adapter: SqliteDatabase *)

\* sqlite3.connect(path): one more open connection
connect(n) == n + 1

\* leaving `with conn:`: sqlite3.Connection.__exit__ commits or rolls back the
\* transaction; it does not close the connection
with_exit(n) == n

\* fetch(sql, ()): the rows or the engine's error, and the open connections
fetch(sql, n) == [out |-> Engine(sql), conns |-> with_exit(connect(n))]

\* execute(sql, ()): as fetch, the rows are dropped
execute(sql, n) ==
    LET r == Engine(sql)
    IN  [out |-> IF r.err = "none" THEN Return(<<>>) ELSE r,
         conns |-> with_exit(connect(n))]

\* get_tables(): the table names are column 0 of the catalog query's rows
get_tables(n) ==
    [out |-> Return([i \in 1..Len(Catalog) |-> Catalog[i].name]),
     conns |-> with_exit(connect(n))]

PragmaSql(name) == <<"P","R","A","G","M","A"," ","t","a","b","l","e","_","i","n","f","o","(">>
                   \o name \o <<")">>

\* list(map(lambda c: c[1], columns)) on what fetch returned
column_names(f) ==
    [out |-> IF f.out.err # "none" THEN f.out
             ELSE Return([i \in 1..Len(f.out.val) |-> PyStr(f.out.val[i][2])]),
     conns |-> f.conns]

\* SqliteTable.get_columns(): column 1 of each PRAGMA table_info row
get_columns(name, n) == column_names(fetch(PragmaSql(name), n))

\* SqliteDatabase.__getitem__(item): g is what get_tables() returned
getitem(item, g) ==
    [out |-> IF \E i \in 1..Len(g.out.val) : g.out.val[i] = item
             THEN Return(item)
             ELSE Raise("KeyError", "Database does not exist"),
     conns |-> g.conns]

-----------------------------------------------------------------------------
(* Query model: QueryOp, Query, Table.select *)

SELECT == 0
WHERE == 1

\* A Query is its chain of nodes, head first: the child of a query is its
\* tail and a query without child has the empty tail.
Node(t, op, param) == [table |-> t, op |-> op, param |-> param]
Query(t, op, param, child) == <<Node(t, op, param)>> \o child
None == <<>>
child_of(q) == Tail(q)

\* Query(self, QueryOp.SELECT, columns) on what get_columns() returned
select_all(t, g) ==
    [out |-> IF g.out.err # "none" THEN g.out
             ELSE Return(Query(t, SELECT, PyList(g.out.val), None)),
     conns |-> g.conns]

\* Table.select(columns): the wildcard is expanded through get_columns()
select(t, columns, n) ==
    IF columns = PyStr(<<"*">>)
    THEN select_all(t, get_columns(t, n))
    ELSE [out |-> Return(Query(t, SELECT, columns, None)), conns |-> n]

\* query.where(p): class Query defines no attribute `where` (the only
\* definition is commented out), so the attribute lookup raises
where(q, p) == Raise("AttributeError", "'Query' object has no attribute 'where'")

-----------------------------------------------------------------------------
(* SQL resolver: SqliteResolver.resolve *)

S_select == <<"S","E","L","E","C","T"," ">>
S_from == <<" ","F","R","O","M"," ">>
S_where_tight == <<" ","W","H","E","R","E">>
S_where == <<" ","W","H","E","R","E"," ">>

AllStr(xs) == \A i \in 1..Len(xs) : xs[i].type = "str"
Texts(xs) == [i \in 1..Len(xs) |-> xs[i].val]

\* the WHERE branch accepts any chain whose base is a SELECT
base_is_select(q) == q[Len(q)].op = SELECT

\* query.child.op.value == QueryOp.SELECT.value
child_is_select(q) == Head(child_of(q)).op = SELECT

RECURSIVE resolve(_)
resolve(q) ==
    LET node == Head(q)
        child == child_of(q)
    IN  IF node.op = SELECT THEN
            IF node.param.type # "list"
            THEN Raise("TypeError", "Param for select query has to be of type list.")
            ELSE IF child # None
            THEN Raise("ValueError", "Select query can not have a child.")
            ELSE IF ~AllStr(node.param.items)
            THEN Raise("TypeError", "sequence item: expected str instance")
            ELSE Return(S_select \o join(<<",">>, Texts(node.param.items))
                        \o S_from \o node.table)
        ELSE IF node.op = WHERE THEN
            IF node.param.type # "str"
            THEN Raise("TypeError", "Param for where query has to be of type str.")
            ELSE IF child = None
            THEN Raise("ValueError", "Child for where query can not be None.")
            ELSE IF ~child_is_select(q)
            THEN Raise("ValueError", "Child query has to have QueryOp = SELECT.")
            ELSE LET r == resolve(child)
                 IN  IF r.err # "none" THEN r
                     ELSE Return(r.val \o S_where \o node.param.val)
        ELSE Return(<<>>)

-----------------------------------------------------------------------------
(* Projection extractor: sql_helper.get_selected_columns *)

\* the for loop: entries are appended until the first one holding a space,
\* of which the text before the first space is appended and the loop left
Columns(splitted) ==
    LET spaced == {i \in 1..Len(splitted) : contains(splitted[i], <<" ">>)}
        cut == CHOOSE i \in spaced : \A j \in spaced : i <= j
    IN  IF spaced = {} THEN splitted
        ELSE SubSeq(splitted, 1, cut - 1) \o <<split(splitted[cut], " ")[1]>>

get_selected_columns(sql0) ==
    LET sql == lower(sql0)
        select_index == find(sql, K_select) + 6
        rest == strip(slice_from(sql, select_index))
        raw == split(rest, ",")
        splitted == [i \in 1..Len(raw) |-> strip(raw[i])]
    IN  IF ~contains(sql, K_select)
        THEN Raise("ValueError", "Not a select command.")
        ELSE Return(Columns(splitted))

-----------------------------------------------------------------------------
(* Inputs *)

TableNames == {T_users, T_items}

\* column names handed to select() and to the extractor
ColumnPool == {C_id, C_Name}
ExtractPool == {C_id, C_Name, C_sku, <<"a","_","1">>}

ListsOver(pool, n) == UNION {[1..k -> pool] : k \in 1..n}

P_id1 == <<"i","d","=","1">>
P_id2 == <<"i","d","=","2">>
Predicates == {P_id1, P_id2}

\* what a caller may hand to Table.select
SelectArgs ==
    {PyList([i \in 1..Len(c) |-> PyStr(c[i])]) : c \in ListsOver(ColumnPool, MaxCols)}
    \cup {PyStr(<<"*">>), PyList(<<>>), PyList(<<PyInt>>),
          PyTuple(<<PyStr(C_id)>>), PyInt}

\* parameters handed to the Query constructor directly
QueryParams ==
    {PyList(<<PyStr(C_id)>>), PyList(<<>>), PyStr(P_id1), PyInt}

U_plain == <<"S","E","L","E","C","T"," ","i","d",",","N","a","m","e"," ","F","R","O","M"," ","u","s","e","r","s">>
    \* SELECT id,Name FROM users
U_star == <<"S","E","L","E","C","T"," ","*"," ","F","R","O","M"," ","u","s","e","r","s">>
    \* SELECT * FROM users
U_alias == <<"S","E","L","E","C","T"," ","i","d"," ","A","S"," ","x",",","N","a","m","e"," ","F","R","O","M"," ","u","s","e","r","s">>
    \* SELECT id AS x,Name FROM users
U_lower == <<"s","e","l","e","c","t"," ","s","k","u"," ","f","r","o","m"," ","i","t","e","m","s">>
    \* select sku from items
U_spaced == <<"S","E","L","E","C","T"," ","i","d",","," ","N","a","m","e"," ","F","R","O","M"," ","u","s","e","r","s"," ","W","H","E","R","E"," ","i","d","=","1">>
    \* SELECT id, Name FROM users WHERE id=1
U_nomatch == <<"S","E","L","E","C","T"," ","i","d"," ","F","R","O","M"," ","u","s","e","r","s"," ","W","H","E","R","E"," ","i","d","=","2">>
    \* SELECT id FROM users WHERE id=2
U_typo == <<"S","E","L","E","C">>
    \* SELEC
U_nocol == <<"S","E","L","E","C","T"," ","n","o","p","e"," ","F","R","O","M"," ","u","s","e","r","s">>
    \* SELECT nope FROM users
U_empty == <<"S","E","L","E","C","T"," "," ","F","R","O","M"," ","u","s","e","r","s">>
    \* SELECT  FROM users
U_pragma == <<"P","R","A","G","M","A"," ","t","a","b","l","e","_","i","n","f","o","(","u","s","e","r","s",")">>
    \* PRAGMA table_info(users)
U_update == <<"U","P","D","A","T","E"," ","t"," ","S","E","T"," ","x","=","1">>
    \* UPDATE t SET x=1

\* texts typed into the SQL view, and handed to execute / fetch
UserSql == {U_plain, U_star, U_alias, U_lower, U_spaced, U_nomatch,
            U_typo, U_nocol, U_empty, U_pragma, U_update}

-----------------------------------------------------------------------------
(* Viewer: the handlers run on a world w = the viewer v, the open           *)
(* connections, and what was raised (raised, msg) and left the handler       *)
(* uncaught (escaped) during the interaction.                                *)

Blank ==
    [table |-> <<>>, selection |-> PyStr(<<"*">>), filter |-> PyNone,
     sqlText |-> <<>>, errorText |-> "", columns |-> <<>>, rows |-> <<>>,
     filterText |-> <<>>]

World(v, n) == [v |-> v, conns |-> n, raised |-> "none", msg |-> "", escaped |-> "none"]

\* an exception leaves the handler
Escape(w, r) == [w EXCEPT !.raised = r.err, !.msg = r.msg, !.escaped = r.err]

\* table.select(self._selection) on the table tb that the lookup returned
selected(w, tb) ==
    IF tb.out.err # "none" THEN tb
    ELSE select(tb.out.val, w.v.selection, tb.conns)

\* if self._filter is not None: query = query.where(self._filter)
filtered(w, s) ==
    IF s.out.err # "none" \/ w.v.filter = PyNone THEN s
    ELSE [out |-> where(s.out.val, w.v.filter.val), conns |-> s.conns]

\* Viewer.build_query()
build_query(w) ==
    filtered(w, selected(w, getitem(w.v.table, get_tables(w.conns))))

RECURSIVE update_view(_, _, _)

\* Viewer.update_sql(sql)
update_sql(w, sql) == update_view(w, sql, FALSE)

\* update_view once fetch has returned or raised f, cols being what
\* get_selected_columns(sql) then returns or raises: only fetch is inside the
\* try; setting the SQL view's text emits textChanged, which runs update_sql
show(w, sql, set_sql, f, cols) ==
    IF f.out.err # "none"
    THEN [w EXCEPT !.conns = f.conns, !.v.errorText = f.out.msg,
                   !.raised = f.out.err, !.msg = f.out.msg]
    ELSE IF cols.err # "none" THEN Escape([w EXCEPT !.conns = f.conns], cols)
    ELSE IF set_sql
    THEN update_sql([w EXCEPT !.conns = f.conns, !.v.columns = cols.val,
                              !.v.rows = f.out.val, !.v.errorText = "",
                              !.v.sqlText = sql], sql)
    ELSE [w EXCEPT !.conns = f.conns, !.v.columns = cols.val,
                   !.v.rows = f.out.val, !.v.errorText = ""]

\* Viewer.update_view(sql, set_sql)
update_view(w, sql, set_sql) ==
    show(w, sql, set_sql, fetch(sql, w.conns), get_selected_columns(sql))

\* self.update_view(sql) on the sql that resolve() returned
view_sql(w, r) ==
    IF r.err # "none" THEN Escape(w, r) ELSE update_view(w, r.val, TRUE)

\* sql = self.build_query().resolve() on the query that build_query() returned
view_query(w, b) ==
    IF b.out.err # "none" THEN Escape([w EXCEPT !.conns = b.conns], b.out)
    ELSE view_sql([w EXCEPT !.conns = b.conns], resolve(b.out.val))

\* the two lines that end init_table and _set_filter
Refresh(w) == view_query(w, build_query(w))

\* Viewer.init_table(table_name)
init_table(w, table_name) ==
    Refresh([w EXCEPT !.v.table = table_name, !.v.selection = PyStr(<<"*">>),
                      !.v.filter = PyNone, !.v.filterText = <<>>])

\* Viewer._set_filter(filters)
_set_filter(w, filters) ==
    Refresh([w EXCEPT !.v.filter = PyStr(filters)])

\* Viewer.__init__: the fields, then set_tables(database.get_tables()); filling
\* the empty combo box selects its first item, which runs init_table on it
Constructed ==
    LET g == get_tables(0)
    IN  IF g.out.val = <<>> THEN World(Blank, g.conns)
        ELSE init_table(World(Blank, g.conns), g.out.val[1])

-----------------------------------------------------------------------------
(* State machines *)

NoCall == [name |-> "none", table |-> <<>>, arg |-> PyNone]
NotCalled == [err |-> "not called", msg |-> "", val |-> <<>>]
NoSql == [text |-> <<>>, from |-> "none", table |-> <<>>, columns |-> <<>>]
NoStorageCall == [op |-> "none", sql |-> <<>>, out |-> NotCalled]
NoEvent == [name |-> "none", arg |-> <<>>, raised |-> "none", msg |-> "",
            escaped |-> "none"]

QueryIdle == query = None /\ call = NoCall /\ resolved = NotCalled /\ whereResult = NotCalled
ExtractIdle == sqlIn = NoSql /\ extracted = NotCalled
StorageIdle == storageCall = NoStorageCall
ViewerIdle == viewer = Blank /\ event = NoEvent

\* the garbage collector finalizes an unreachable connection, which closes it
Collect ==
    /\ openConns > 0
    /\ openConns' = openConns - 1
    /\ UNCHANGED <<query, call, resolved, whereResult, sqlIn, extracted,
                   storageCall, viewer, event>>

(* Spec: the viewer and its three interactions *)

Init ==
    /\ QueryIdle /\ ExtractIdle /\ StorageIdle
    /\ viewer = Constructed.v
    /\ openConns = Constructed.conns
    /\ event = [name |-> "construct", arg |-> Constructed.v.table,
                raised |-> Constructed.raised, msg |-> Constructed.msg,
                escaped |-> Constructed.escaped]

\* an exception that leaves a slot ends the process (main.py installs no
\* excepthook), so no handler runs after one has escaped
Handle(name, arg, w) ==
    /\ w.conns <= MaxConns
    /\ viewer' = w.v
    /\ openConns' = w.conns
    /\ event' = [name |-> name, arg |-> arg, raised |-> w.raised, msg |-> w.msg,
                 escaped |-> w.escaped]
    /\ UNCHANGED <<query, call, resolved, whereResult, sqlIn, extracted, storageCall>>

\* TableSelect._on_select: currentIndexChanged on the combo box
TableSelected ==
    \E t \in TableNames :
        /\ event.escaped = "none"
        /\ t # viewer.table
        /\ Handle("table selected", t, init_table(World(viewer, openConns), t))

\* SqlView._on_text_changed: the user has changed the text of the SQL view
SqlEdited ==
    \E text \in UserSql :
        /\ event.escaped = "none"
        /\ text # viewer.sqlText
        /\ Handle("sql edited", text,
                  update_sql(World([viewer EXCEPT !.sqlText = text], openConns), text))

\* FilterInput._on_text_changed: textEdited on the filter line edit
FilterEdited ==
    \E p \in Predicates :
        /\ event.escaped = "none"
        /\ p # viewer.filterText
        /\ Handle("filter changed", p,
                  _set_filter(World([viewer EXCEPT !.filterText = p], openConns), p))

Next == TableSelected \/ SqlEdited \/ FilterEdited \/ Collect

Spec == Init /\ [][Next]_vars

(* SpecStorage: execute and fetch called directly *)

InitStorage ==
    /\ QueryIdle /\ ExtractIdle /\ ViewerIdle
    /\ storageCall = NoStorageCall
    /\ openConns = 0

StorageCall(op, sql, r) ==
    /\ r.conns <= MaxConns
    /\ storageCall' = [op |-> op, sql |-> sql, out |-> r.out]
    /\ openConns' = r.conns
    /\ UNCHANGED <<query, call, resolved, whereResult, sqlIn, extracted, viewer, event>>

Fetch == \E sql \in UserSql : StorageCall("fetch", sql, fetch(sql, openConns))

Execute == \E sql \in UserSql : StorageCall("execute", sql, execute(sql, openConns))

NextStorage == Fetch \/ Execute \/ Collect

SpecStorage == InitStorage /\ [][NextStorage]_vars

(* SpecExtract: get_selected_columns applied to resolver output and typed text *)

Resolved(t, c) ==
    [text |-> resolve(Query(t, SELECT, PyList([i \in 1..Len(c) |-> PyStr(c[i])]), None)).val,
     from |-> "resolver", table |-> t, columns |-> c]

Typed(text) == [text |-> text, from |-> "user", table |-> <<>>, columns |-> <<>>]

SqlInputs ==
    {Resolved(t, c) : t \in TableNames, c \in ListsOver(ExtractPool, MaxExtract)}
    \cup {Typed(text) : text \in UserSql}

InitExtract ==
    /\ QueryIdle /\ StorageIdle /\ ViewerIdle
    /\ openConns = 0
    /\ sqlIn \in SqlInputs
    /\ extracted = get_selected_columns(sqlIn.text)

Extract ==
    \E s \in SqlInputs :
        /\ sqlIn' = s
        /\ extracted' = get_selected_columns(s.text)
        /\ UNCHANGED <<query, call, resolved, whereResult, storageCall, openConns,
                       viewer, event>>

NextExtract == Extract

SpecExtract == InitExtract /\ [][NextExtract]_vars

(* SpecQuery: queries built through Table.select and the Query constructor, *)
(* each resolved once built                                                   *)

OverArgs ==
    {<<WHERE, PyStr(P_id1)>>, <<WHERE, PyInt>>, <<SELECT, PyList(<<PyStr(C_id)>>)>>}

Built(s, c) ==
    /\ s.conns <= MaxConns
    /\ query' = s.out.val
    /\ call' = c
    /\ resolved' = resolve(s.out.val)
    /\ whereResult' = NotCalled
    /\ openConns' = s.conns
    /\ UNCHANGED <<sqlIn, extracted, storageCall, viewer, event>>

\* Query(t, op, param, child)
New(t, op, param, child, n) == [out |-> Return(Query(t, op, param, child)), conns |-> n]

InitQuery ==
    /\ ExtractIdle /\ StorageIdle /\ ViewerIdle
    /\ openConns = 0
    /\ \E t \in TableNames :
          /\ query = Query(t, SELECT, PyList(<<PyStr(C_id)>>), None)
          /\ call = [name |-> "Query", table |-> t, arg |-> PyList(<<PyStr(C_id)>>)]
    /\ resolved = resolve(query)
    /\ whereResult = NotCalled

\* Table(t).select(arg)
TableSelect ==
    \E t \in TableNames, arg \in SelectArgs :
        Built(select(t, arg, openConns), [name |-> "select", table |-> t, arg |-> arg])

\* Query(t, op, param)
ConstructBase ==
    \E t \in TableNames, op \in {SELECT, WHERE}, param \in QueryParams :
        Built(New(t, op, param, None, openConns),
              [name |-> "Query", table |-> t, arg |-> param])

\* Query(query.table, op, param, query)
ConstructOver ==
    \E a \in OverArgs :
        /\ Len(query) < MaxChain
        /\ Built(New(Head(query).table, a[1], a[2], query, openConns),
                 [name |-> "Query", table |-> Head(query).table, arg |-> a[2]])

\* query.where(p)
CallWhere ==
    \E p \in Predicates :
        /\ whereResult' = where(query, p)
        /\ call' = [name |-> "where", table |-> Head(query).table, arg |-> PyStr(p)]
        /\ UNCHANGED <<query, resolved, openConns, sqlIn, extracted, storageCall,
                       viewer, event>>

NextQuery == TableSelect \/ ConstructBase \/ ConstructOver \/ CallWhere \/ Collect

SpecQuery == InitQuery /\ [][NextQuery]_vars

-----------------------------------------------------------------------------
(* Properties *)

\* c1, c2, ..., cn separated by "," and nothing else
CommaSeparated(C) ==
    LET F[i \in 1..Len(C)] == IF i = 1 THEN C[1] ELSE F[i - 1] \o <<",">> \o C[i]
    IN  F[Len(C)]

IsStrList(p) ==
    p.type = "list" /\ \A i \in 1..Len(p.items) : p.items[i].type = "str"

\* "SELECT c1,...,cn FROM t"
SelectText(C, t) ==
    <<"S","E","L","E","C","T"," ">> \o CommaSeparated(C) \o <<" ","F","R","O","M"," ">> \o t

\* C1: for every table T and non-empty list C of column names, resolving the
\* query built by Table(T).select(C) returns "SELECT " + C joined by "," +
\* " FROM " + T.
C1_SelectResolves ==
    (call.name = "select" /\ IsStrList(call.arg) /\ call.arg.items # <<>>)
    => resolved = Return(SelectText(Texts(call.arg.items), call.table))

C1_Witness ==
    /\ call.name = "select" /\ IsStrList(call.arg) /\ Len(call.arg.items) >= 2
    /\ call.arg.items[1] # call.arg.items[2]
    /\ resolved.err = "none"

\* C2: resolving a WHERE node with string predicate p over a SELECT child c
\* returns resolve(c) followed by " WHERE " and p verbatim (and raises what
\* resolve(c) raises).
C2_WhereAppends ==
    (/\ Head(query).op = WHERE /\ Head(query).param.type = "str"
     /\ child_of(query) # None /\ Head(child_of(query)).op = SELECT)
    => LET c == resolve(child_of(query))
       IN  IF c.err = "none"
           THEN resolved = Return(c.val \o <<" ","W","H","E","R","E"," ">>
                                  \o Head(query).param.val)
           ELSE resolved = c

C2_Witness ==
    /\ Len(query) = 2 /\ Head(query).op = WHERE /\ Head(query).param = PyStr(P_id1)
    /\ query[2].op = SELECT /\ resolved.err = "none"

\* C3: q.where(p) on a SELECT query q returns a new Query with op WHERE,
\* param p, child q and q's table.
C3_WhereReturnsQuery ==
    (call.name = "where" /\ Head(query).op = SELECT)
    => whereResult = Return(Query(Head(query).table, WHERE, call.arg, query))

\* C4: after any sequence of execute / fetch calls, successful or failing, no
\* connection is open.
C4_ConnectionsClosed == storageCall.op # "none" => openConns = 0

\* C5: an interaction during which an error is raised shows the error as the
\* error text, leaves the displayed columns and rows unchanged, and lets no
\* exception leave the handler.
C5_ErrorsSurfaced ==
    [][event'.raised # "none" =>
          /\ event'.escaped = "none"
          /\ viewer'.errorText = event'.msg
          /\ viewer'.columns = viewer.columns
          /\ viewer'.rows = viewer.rows]_vars

\* C6: get_selected_columns applied to "SELECT " + C joined by "," + " FROM " + t
\* returns exactly C.
C6_RoundTrip ==
    sqlIn.from = "resolver" => extracted = Return(sqlIn.columns)

\* C7: resolving a SELECT query succeeds only when its parameter is a
\* non-empty list of strings, and fails with a TypeError for every other
\* parameter.
C7_SelectParamChecked ==
    (Head(query).op = SELECT /\ child_of(query) = None)
    => LET ok == IsStrList(Head(query).param) /\ Head(query).param.items # <<>>
       IN  /\ resolved.err = "none" => ok
           /\ ~ok => resolved.err = "TypeError"

\* a chain of WHERE nodes with string predicates over a SELECT base with a
\* list of strings
RECURSIVE EndsInSelect(_)
EndsInSelect(q) ==
    /\ q # None
    /\ IF Head(q).op = SELECT
       THEN child_of(q) = None /\ IsStrList(Head(q).param)
       ELSE Head(q).param.type = "str" /\ EndsInSelect(child_of(q))

\* C8 (as claimed): resolving a WHERE query succeeds whenever its child's
\* chain ends in a SELECT base, directly or transitively.
C8_WhereTransitive ==
    (Head(query).op = WHERE /\ Head(query).param.type = "str"
     /\ EndsInSelect(child_of(query)))
    => resolved.err = "none"

\* C8 (amended): resolving a WHERE query with a string predicate succeeds
\* whenever its direct child is a SELECT query without child over a list of
\* strings, and fails with a ValueError whenever the child is missing or the
\* direct child is not a SELECT, a WHERE over a WHERE over a SELECT included.
C8_WhereDirectChild ==
    (Head(query).op = WHERE /\ Head(query).param.type = "str")
    => LET c == child_of(query)
       IN  /\ (c = None \/ Head(c).op # SELECT) => resolved.err = "ValueError"
           /\ (Len(c) = 1 /\ Head(c).op = SELECT /\ IsStrList(Head(c).param))
                  => resolved.err = "none"

C8_Witness ==
    /\ Len(query) = 3
    /\ query[1].op = WHERE /\ query[1].param.type = "str"
    /\ query[2].op = WHERE /\ query[2].param.type = "str"
    /\ query[3].op = SELECT /\ IsStrList(query[3].param)
    /\ resolved.err = "ValueError"

\* C9: after 'table selected' for table t the SQL view shows
\* "SELECT " + columns of t joined by "," + " FROM " + t; after a following
\* 'filter text changed' with predicate p it shows that text followed by
\* " WHERE " + p, with no error.
C9_FilterAppendsWhere ==
    LET base == SelectText(TableOf(viewer.table).columns, viewer.table)
    IN  /\ event.name = "table selected" => viewer.sqlText = base
        /\ event.name = "filter changed" =>
              /\ viewer.sqlText = base \o <<" ","W","H","E","R","E"," ">> \o event.arg
              /\ viewer.errorText = ""
              /\ event.escaped = "none"

\* C10: after every refresh that completed without error, the number of
\* column labels equals the arity of every displayed row.
C10_LabelsMatchArity ==
    event.raised = "none" =>
        \A r \in 1..Len(viewer.rows) : Len(viewer.rows[r]) = Len(viewer.columns)

====
